---- MODULE Spec2Model ----
(***************************************************************************)
(* Model of rowhammer_tester/scripts/logs2plot.py: the log walker of the   *)
(* __main__ block and the two renderers plot_single_attack and             *)
(* plot_aggressors_vs_victims.                                             *)
(*                                                                         *)
(* Three specifications share the module:                                  *)
(*   Spec        the log walker (lines 166-214), reading the log one       *)
(*               attack set and one attack record at a time;               *)
(*   SpecSingle  plot_single_attack (lines 20-63) applied to one record;   *)
(*   SpecTicks   the colorbar tick computation of both renderers.          *)
(***************************************************************************)
EXTENDS Integers, Sequences, FiniteSets, TLC

\* ------------------------------------------------------------------ bounds
\* longest per-column list of bit flips in a log
MaxFlips == 1
\* settings["geom"]["colbits"] ranges over 0..MaxColBits
MaxColBits == 5
\* --plot-columns ranges over 0..MaxPlotColumns
MaxPlotColumns == 3
\* attack sets per log and attack records per attack set
MaxSets == 2
MaxRecords == 2
\* largest histogram maximum fed to the colorbar
MaxM == 420

\* row numbers of the victim rows that occur in logs (one and two digits)
RowNumbers == {3, 12}
\* rows that attacks hammer
HammerRows == {4, 11}

\* ------------------------------------------------------- values and helpers
\* a name that was never assigned (reading it raises NameError)
Unbound == <<"unbound">>

Max2(a, b) == IF a >= b THEN a ELSE b

RECURSIVE Pow2(_)
Pow2(n) == IF n = 0 THEN 1 ELSE 2 * Pow2(n - 1)

\* str(n) of a non-negative int, as the sequence of its decimal digits: the
\* keys of errors_in_rows and of "col" are such strings in the JSON log
RECURSIVE Str(_)
Str(n) == IF n < 10 THEN <<n>> ELSE Append(Str(n \div 10), n % 10)

\* int(col) of a string of decimal digits
RECURSIVE IntOf(_)
IntOf(s) ==
    IF Len(s) = 1 THEN s[1]
    ELSE 10 * IntOf(SubSeq(s, 1, Len(s) - 1)) + s[Len(s)]

RECURSIVE SumSeq(_)
SumSeq(s) == IF Len(s) = 0 THEN 0 ELSE s[1] + SumSeq(Tail(s))

SeqRange(s) == {s[i] : i \in 1..Len(s)}

MinOf(s) == CHOOSE x \in SeqRange(s) : \A y \in SeqRange(s) : x <= y
MaxOf(s) == CHOOSE x \in SeqRange(s) : \A y \in SeqRange(s) : x >= y

\* list(range(start, stop, step)) for step > 0
RECURSIVE PyRange(_, _, _)
PyRange(start, stop, step) ==
    IF start >= stop THEN <<>>
    ELSE <<start>> \o PyRange(start + step, stop, step)

\* ------------------------------------------------------------ the log shape
\* the sequences over S without a repeated element: the key orders of a dict
DistinctSeqs(S) ==
    {s \in UNION {[1..n -> S] : n \in 0..Cardinality(S)} :
        \A i, j \in 1..Len(s) : i # j => s[i] # s[j]}

\* the ordered mappings (lists of <<key, value>> items) from keys of K to values of V
OrderedMappings(K, V) ==
    UNION {{[i \in 1..Len(ks) |-> <<ks[i], f[i]>>] : f \in [1..Len(ks) -> V]} :
             ks \in DistinctSeqs(K)}

\* a per-column list of bit-flip records; only its length is ever read
FlipLists == {[i \in 1..n |-> 0] : n \in 0..MaxFlips}

\* the "col" mappings over the column numbers C with flip lists of FL
ColMappings(C, FL) == OrderedMappings({Str(c) : c \in C}, FL)

TotalFlips(col) == SumSeq([i \in 1..Len(col) |-> Len(col[i][2])])

\* errors_in_rows as the hammering tool logs it: under the key str(row) the
\* record {row, col, bitflips}, bitflips being the row's flip count
ErrorsInRows(C, FL) ==
    UNION {{[i \in 1..Len(rs) |->
                <<Str(rs[i]),
                  [row |-> rs[i], col |-> f[i], bitflips |-> TotalFlips(f[i])]>>] :
             f \in [1..Len(rs) -> ColMappings(C, FL)]} :
           rs \in DistinctSeqs(RowNumbers)}

\* ------------------------------------------------------- plot_single_attack
\* (mutant) one coordinate per column instead of one per bit flip
FlipLoopPerColumn(acc, i, c, col_errors) ==
    [acc EXCEPT !.row_vals = Append(@, i), !.col_vals = Append(@, c)]

\* for _ in col_errors: row_vals.append(i); col_vals.append(int(col))
RECURSIVE FlipLoop(_, _, _, _)
FlipLoop(acc, i, c, col_errors) ==
    IF Len(col_errors) = 0 THEN acc
    ELSE FlipLoop([acc EXCEPT !.row_vals = Append(@, i), !.col_vals = Append(@, c)],
                  i, c, Tail(col_errors))

\* for col, col_errors in row_errors["col"].items()
RECURSIVE ColLoop(_, _, _)
ColLoop(acc, i, col_items) ==
    IF Len(col_items) = 0 THEN acc
    ELSE ColLoop(FlipLoop(acc, i, IntOf(col_items[1][1]), col_items[1][2]),
                 i, Tail(col_items))

\* for i, (row, row_errors) in enumerate(data["errors_in_rows"].items())
RECURSIVE RowLoop(_, _, _)
RowLoop(acc, i, row_items) ==
    IF Len(row_items) = 0 THEN acc
    ELSE RowLoop(ColLoop([acc EXCEPT !.row_labels = Append(@, row_items[1][1])],
                         i, row_items[1][2].col),
                 i + 1, Tail(row_items))

\* row_labels, row_vals and col_vals when the flattening loop ends
Flatten(errors_in_rows) ==
    RowLoop([row_labels |-> <<>>, row_vals |-> <<>>, col_vals |-> <<>>],
            0, errors_in_rows)

\* the bin (1-based) numpy's histogram puts v in, 0 when v is outside the
\* edges: bins are [e[j], e[j+1]) and the last bin also holds its right edge
BinOf(edges, v) ==
    IF Len(edges) < 2 \/ v < edges[1] \/ v > edges[Len(edges)] THEN 0
    ELSE IF v = edges[Len(edges)] THEN Len(edges) - 1
    ELSE CHOOSE j \in 1..(Len(edges) - 1) : edges[j] <= v /\ v < edges[j + 1]

\* (mutant) the edges sit on the row indices: np.arange(min, max + 1, 1)
YEdges2OnIndices(row_vals) ==
    [k \in 1..(MaxOf(row_vals) - MinOf(row_vals) + 1) |->
        2 * MinOf(row_vals) + 2 * (k - 1)]

\* np.arange(min(row_vals) - 0.5, max(row_vals) + 1, 1), every edge doubled
\* to stay in the integers: 2*min - 1, 2*min + 1, ..., 2*max + 1
YEdges2(row_vals) ==
    [k \in 1..(MaxOf(row_vals) - MinOf(row_vals) + 2) |->
        2 * MinOf(row_vals) - 1 + 2 * (k - 1)]

\* range(0, cols + 1, col_step)
XEdges(cols, col_step) == PyRange(0, cols + 1, col_step)

\* h of plt.hist2d(col_vals, row_vals, bins=bins): explicit edges, so the
\* range argument is not used
Hist2d(col_vals, row_vals, xedges, yedges2) ==
    [j \in 1..(Len(xedges) - 1), k \in 1..(Len(yedges2) - 1) |->
        Cardinality({e \in 1..Len(col_vals) :
            /\ BinOf(xedges, col_vals[e]) = j
            /\ BinOf(yedges2, 2 * row_vals[e]) = k})]

HistMax(h) ==
    IF DOMAIN h = {} THEN 0
    ELSE CHOOSE m \in {h[c] : c \in DOMAIN h} : \A c \in DOMAIN h : h[c] <= m

HistTotal(h, xedges, yedges2) ==
    SumSeq([j \in 1..(Len(xedges) - 1) |->
        SumSeq([k \in 1..(Len(yedges2) - 1) |-> h[j, k]])])

\* (mutant) the ticks are left at one per value
TicksStepOne(max_errors) == 1

\* ticks_step = max(1, int(max_errors // 20)) of plot_single_attack
TicksStep(max_errors) == Max2(1, max_errors \div 20)

\* range(0, max_errors + 1, ticks_step) of plot_single_attack
ColorbarTicks(max_errors) == PyRange(0, max_errors + 1, TicksStep(max_errors))

\* what the function has computed when it returns or where it raises
NoPlot(status, f) ==
    [status |-> status, row_labels |-> f.row_labels, row_vals |-> f.row_vals,
     col_vals |-> f.col_vals, xedges |-> <<>>, yedges2 |-> <<>>, h |-> <<>>,
     yticks |-> <<>>, max_errors |-> 0, ticks |-> <<>>, title |-> Unbound]

PlotSingleAttack(errors_in_rows, cols, col_step, title) ==
    LET f == Flatten(errors_in_rows) IN
    IF col_step = 0 THEN NoPlot("ValueError", f)            \* range() step 0
    ELSE IF Len(f.row_vals) = 0 THEN NoPlot("ValueError", f)  \* min() of []
    ELSE LET xe == XEdges(cols, col_step)
             ye == YEdges2(f.row_vals)
             h  == Hist2d(f.col_vals, f.row_vals, xe, ye)
         IN [status |-> "shown", row_labels |-> f.row_labels,
             row_vals |-> f.row_vals, col_vals |-> f.col_vals,
             xedges |-> xe, yedges2 |-> ye, h |-> h,
             yticks |-> [i \in 1..Len(errors_in_rows) |-> <<i - 1, f.row_labels[i]>>],
             max_errors |-> HistMax(h), ticks |-> ColorbarTicks(HistMax(h)),
             title |-> title]

\* ----------------------------------------------- plot_aggressors_vs_victims
\* (mutant) the weight is counted from the flip lists of the row
RECURSIVE VictimLoopCounted(_, _, _)
VictimLoopCounted(acc, aggressor, victim) ==
    IF Len(victim) = 0 THEN acc
    ELSE VictimLoopCounted(
            [victims    |-> Append(acc.victims, victim[1][2].row),
             aggressors |-> Append(acc.aggressors, aggressor),
             bitflips   |-> Append(acc.bitflips, TotalFlips(victim[1][2].col))],
            aggressor, Tail(victim))

\* for v in victim: victims.append(v[1]["row"]); aggressors.append(aggressor);
\* bitflips.append(v[1]["bitflips"])
RECURSIVE VictimLoop(_, _, _)
VictimLoop(acc, aggressor, victim) ==
    IF Len(victim) = 0 THEN acc
    ELSE VictimLoop([victims    |-> Append(acc.victims, victim[1][2].row),
                     aggressors |-> Append(acc.aggressors, aggressor),
                     bitflips   |-> Append(acc.bitflips, victim[1][2].bitflips)],
                    aggressor, Tail(victim))

\* for aggressor, victim in data.items()
RECURSIVE AggressorLoop(_, _)
AggressorLoop(acc, items) ==
    IF Len(items) = 0 THEN acc
    ELSE AggressorLoop(VictimLoop(acc, items[1][1], items[1][2]), Tail(items))

AggregateLists(data) ==
    AggressorLoop([victims |-> <<>>, aggressors |-> <<>>, bitflips |-> <<>>], data)

\* one cell of ax.hist2d(victims, aggressors, weights=bitflips) with
\* unit-width bins: the sum of the weights of the entries in the cell
AggregateCell(l, v, a) ==
    SumSeq([e \in 1..Len(l.victims) |->
        IF l.victims[e] = v /\ l.aggressors[e] = a THEN l.bitflips[e] ELSE 0])

\* ticks_step = max(1, int(max_errors // 20)) of plot_aggressors_vs_victims
AggregateTicksStep(max_errors) == Max2(1, max_errors \div 20)

\* range(0, max_errors + 1, ticks_step) of plot_aggressors_vs_victims
AggregateColorbarTicks(max_errors) ==
    PyRange(0, max_errors + 1, AggregateTicksStep(max_errors))

\* the annotate argument only adds text to cells and is left out
PlotAggressorsVsVictims(data) ==
    LET l == AggregateLists(data) IN
    IF Len(l.victims) = 0
    THEN [status |-> "ValueError", lists |-> l, h |-> <<>>,        \* min() of []
          max_errors |-> 0, ticks |-> <<>>]
    ELSE LET h == [v \in MinOf(l.victims)..MaxOf(l.victims),
                   a \in MinOf(l.aggressors)..MaxOf(l.aggressors) |->
                      AggregateCell(l, v, a)]
         IN [status |-> "shown", lists |-> l, h |-> h,
             max_errors |-> HistMax(h),
             ticks |-> AggregateColorbarTicks(HistMax(h))]

\* ------------------------------------------------------------ the log walker
VARIABLES
    aggregate,              \* args.aggressors_vs_victims
    plot_columns,           \* args.plot_columns
    colbits,                \* settings["geom"]["colbits"]
    pc,                     \* "log", "in_set", "done", "exited", "raised"
    set_no,                 \* attack sets the outer loop has entered
    rec_no,                 \* records the inner loop has walked in this set
    hammered_rows,          \* the name hammered_rows, Unbound until assigned
    title,                  \* the name title, Unbound until assigned
    aggressors_vs_victims,  \* the dict of this attack set, as its item list
    renders,                \* plots shown (plt.show() reached)
    called_empty,           \* a renderer was called with no coordinate to plot
    diag,                   \* the ERROR line printed, "none" if none
    error,                  \* the uncaught exception, "none" if none
    exit_status,            \* the status of the process once it has ended
    walked_kinds,           \* history: the kinds of the records walked so far
    data,                   \* SpecSingle: errors_in_rows of the plotted record
    single,                 \* SpecSingle: the locals of plot_single_attack
    aggr,                   \* SpecAggregate: the locals of plot_aggressors_vs_victims
    max_errors,             \* SpecTicks: int(h.max())
    ticks                   \* SpecTicks: the colorbar ticks, by renderer

ovars == <<data, single, aggr, max_errors, ticks>>
wvars == <<aggregate, plot_columns, colbits, pc, set_no, rec_no, hammered_rows,
           title, aggressors_vs_victims, renders, called_empty, diag, error,
           exit_status, walked_kinds>>
vars == <<wvars, ovars>>

\* COLS = 2**settings["geom"]["colbits"]
COLS == Pow2(colbits)

\* exit() with no argument ends the process with status 0
ExitNoArg == 0

\* d[key] = value on a dict kept as its list of items
DictSet(d, key, value) ==
    IF \E i \in 1..Len(d) : d[i][1] = key
    THEN [i \in 1..Len(d) |-> IF d[i][1] = key THEN <<key, value>> ELSE d[i]]
    ELSE Append(d, <<key, value>>)

\* errors_in_rows of the records the walker reads: flips in column 0 only,
\* none or one per list (the walker reads no more of them than their count)
WalkErrors == ErrorsInRows({0}, {<<>>, <<0>>})

\* the attack records a log holds, by what their name starts with
PairRecords ==
    [hammer_row_1 : HammerRows, hammer_row_2 : HammerRows,
     errors_in_rows : WalkErrors]
SequentialRecords ==
    [row_pairs : {<<<<0, 4>>, <<1, 11>>>>},
     errors_in_rows : WalkErrors]
OtherRecords == [errors_in_rows : WalkErrors]

NotCalled == [status |-> "not called"]

WalkInit ==
    /\ aggregate \in BOOLEAN
    \* aggregate mode never reads COLS or plot_columns: one value stands for all
    /\ plot_columns \in (IF aggregate THEN {MaxPlotColumns} ELSE 0..MaxPlotColumns)
    /\ colbits \in (IF aggregate THEN {MaxColBits} ELSE {0, MaxColBits})
    /\ pc = "log"
    /\ set_no = 0
    /\ rec_no = 0
    /\ hammered_rows = Unbound
    /\ title = Unbound
    /\ aggressors_vs_victims = <<>>
    /\ renders = 0
    /\ called_empty = FALSE
    /\ diag = "none"
    /\ error = "none"
    /\ exit_status = -1
    /\ walked_kinds = {}

\* no colorbar drawn yet (a drawn one has at least the tick 0)
NoTicks == [single |-> <<>>, aggregate |-> <<>>]

Idle ==
    /\ data = <<>>
    /\ single = NotCalled
    /\ aggr = NotCalled
    /\ max_errors = 0
    /\ ticks = NoTicks

Init == WalkInit /\ Idle

\* an uncaught exception: the traceback is printed and the status is 1
Raise(e) == pc' = "raised" /\ error' = e /\ exit_status' = 1

\* print("ERROR: ..."); exit()
ExitWith(message) == pc' = "exited" /\ diag' = message /\ exit_status' = ExitNoArg

\* (mutant) the dict is created once, before the outer loop
CarriedTable == aggressors_vs_victims

\* aggressors_vs_victims = {} at the top of the outer loop's body
FreshTable == <<>>

\* for _, attack_set_results in log_data.items(): aggressors_vs_victims = {};
\* the read_count key, if there is one, is popped and is never a record
BeginAttackSet ==
    /\ pc = "log"
    /\ set_no < MaxSets
    /\ pc' = "in_set"
    /\ set_no' = set_no + 1
    /\ rec_no' = 0
    /\ aggressors_vs_victims' = FreshTable
    /\ UNCHANGED <<aggregate, plot_columns, colbits, hammered_rows, title,
                   renders, called_empty, diag, error, exit_status, walked_kinds>>
    /\ UNCHANGED ovars

\* hammered_rows after the classification of a record
HammeredRowsAfter(name, attack_results) ==
    IF name = "pair"
    THEN <<attack_results.hammer_row_1, attack_results.hammer_row_2>>
    ELSE hammered_rows

\* title after the classification of a record
TitleAfter(name, attack_results) ==
    IF name = "pair"
    THEN <<"Hammered rows", attack_results.hammer_row_1, attack_results.hammer_row_2>>
    ELSE IF name = "sequential"
    THEN <<"Sequential attack on rows", attack_results.row_pairs[1][2],
           attack_results.row_pairs[Len(attack_results.row_pairs)][2]>>
    ELSE title

KindOf(name, attack_results) ==
    IF name # "pair" THEN name
    ELSE IF attack_results.hammer_row_1 = attack_results.hammer_row_2
    THEN "pair single row" ELSE "pair two rows"

\* (mutant) the ERROR line is printed but the exit() after it is missing
SequentialNoExit == diag' = "sequential" /\ UNCHANGED <<pc, exit_status>>

\* the sequential branch in aggregate mode: print the ERROR line and exit()
SequentialAbort == ExitWith("sequential")

\* aggregate mode, lines 189-203: the record's rows are stored under
\* hammered_rows[0], then unequal hammered rows end the run
Collect(hr, attack_results) ==
    IF hr = Unbound
    THEN /\ Raise("NameError")
         /\ UNCHANGED <<aggressors_vs_victims, diag>>
    ELSE /\ aggressors_vs_victims' =
                DictSet(aggressors_vs_victims, hr[1], attack_results.errors_in_rows)
         /\ IF hr[1] # hr[2]
            THEN ExitWith("unequal") /\ UNCHANGED error
            ELSE UNCHANGED <<pc, diag, error, exit_status>>

\* per-attack mode, lines 206-212: the call of plot_single_attack
PlotImmediately(tt, attack_results) ==
    IF plot_columns = 0
    THEN /\ Raise("ZeroDivisionError")
         /\ UNCHANGED <<renders, called_empty>>
    ELSE IF tt = Unbound
    THEN /\ Raise("NameError")
         /\ UNCHANGED <<renders, called_empty>>
    ELSE LET r == PlotSingleAttack(attack_results.errors_in_rows, COLS,
                                   COLS \div plot_columns, tt)
         IN /\ called_empty' = (called_empty \/ Len(r.row_vals) = 0)
            /\ IF r.status = "shown"
               THEN renders' = renders + 1 /\ UNCHANGED <<pc, error, exit_status>>
               ELSE Raise(r.status) /\ UNCHANGED renders

\* one pass of the inner loop, lines 173-212
WalkRecord(name, attack_results) ==
    /\ pc = "in_set"
    /\ rec_no < MaxRecords
    /\ rec_no' = rec_no + 1
    /\ walked_kinds' = walked_kinds \cup {KindOf(name, attack_results)}
    /\ hammered_rows' = HammeredRowsAfter(name, attack_results)
    /\ title' = TitleAfter(name, attack_results)
    /\ IF name = "sequential" /\ aggregate
       THEN /\ SequentialAbort
            /\ UNCHANGED <<aggressors_vs_victims, renders, called_empty, error>>
       ELSE IF aggregate
       THEN /\ Collect(HammeredRowsAfter(name, attack_results), attack_results)
            /\ UNCHANGED <<renders, called_empty>>
       ELSE /\ PlotImmediately(TitleAfter(name, attack_results), attack_results)
            /\ UNCHANGED <<aggressors_vs_victims, diag>>
    /\ UNCHANGED <<aggregate, plot_columns, colbits, set_no>>
    /\ UNCHANGED ovars

WalkPair == \E r \in PairRecords : WalkRecord("pair", r)
WalkSequential == \E r \in SequentialRecords : WalkRecord("sequential", r)
WalkOther == \E r \in OtherRecords : WalkRecord("other", r)

\* the inner loop is exhausted, lines 213-214
AfterInnerLoop ==
    /\ pc = "in_set"
    /\ IF aggregate
       THEN LET r == PlotAggressorsVsVictims(aggressors_vs_victims)
            IN /\ called_empty' = (called_empty \/ Len(r.lists.victims) = 0)
               /\ IF r.status = "shown"
                  THEN /\ renders' = renders + 1
                       /\ pc' = "log"
                       /\ UNCHANGED <<error, exit_status>>
                  ELSE Raise(r.status) /\ UNCHANGED renders
       ELSE /\ pc' = "log"
            /\ UNCHANGED <<renders, called_empty, error, exit_status>>
    /\ UNCHANGED <<aggregate, plot_columns, colbits, set_no, rec_no,
                   hammered_rows, title, aggressors_vs_victims, diag, walked_kinds>>

EndAttackSet == AfterInnerLoop /\ UNCHANGED ovars

\* the outer loop is exhausted: the script ends
EndLog ==
    /\ pc = "log"
    /\ pc' = "done"
    /\ exit_status' = 0
    /\ UNCHANGED <<aggregate, plot_columns, colbits, set_no, rec_no,
                   hammered_rows, title, aggressors_vs_victims, renders,
                   called_empty, diag, error, walked_kinds>>
    /\ UNCHANGED ovars

Next ==
    \/ BeginAttackSet
    \/ WalkPair
    \/ WalkSequential
    \/ WalkOther
    \/ EndAttackSet
    \/ EndLog

Spec == Init /\ [][Next]_vars

\* -------------------------------------------- plot_single_attack on its own
\* the walker's variables, at rest while a renderer is looked at alone
WalkAtRest ==
    /\ aggregate = FALSE
    /\ pc = "in_set"
    /\ set_no = 1
    /\ rec_no = 1
    /\ hammered_rows = <<4, 4>>
    /\ title = <<"Hammered rows", 4, 4>>
    /\ aggressors_vs_victims = <<>>
    /\ renders = 0
    /\ called_empty = FALSE
    /\ diag = "none"
    /\ error = "none"
    /\ exit_status = -1
    /\ walked_kinds = {"pair single row"}

\* a pair record with flips in the first and the last column, about to be
\* plotted with COLS // args.plot_columns as col_step
SingleInit ==
    /\ WalkAtRest
    /\ colbits \in 0..MaxColBits
    /\ plot_columns \in 1..MaxPlotColumns
    /\ data \in ErrorsInRows({0, COLS - 1}, FlipLists)
    /\ single = NotCalled
    /\ aggr = NotCalled
    /\ max_errors = 0
    /\ ticks = NoTicks

\* plot_single_attack(attack_results, ROWS, COLS, COLS // args.plot_columns, title)
SinglePlot ==
    /\ single = NotCalled
    /\ single' = PlotSingleAttack(data, COLS, COLS \div plot_columns, title)
    /\ UNCHANGED <<wvars, data, aggr, max_errors, ticks>>

SingleNext == SinglePlot

SpecSingle == SingleInit /\ [][SingleNext]_vars

\* ------------------------------------------------- the colorbar on its own
TicksInit ==
    /\ WalkAtRest
    /\ colbits = 0
    /\ plot_columns = 1
    /\ data = <<>>
    /\ single = NotCalled
    /\ aggr = NotCalled
    /\ max_errors \in 0..MaxM
    /\ ticks = NoTicks

\* plt.colorbar(ticks=range(0, max_errors + 1, ticks_step)) of plot_single_attack
SingleColorbar ==
    /\ ticks.single = <<>>
    /\ ticks' = [ticks EXCEPT !.single = ColorbarTicks(max_errors)]
    /\ UNCHANGED <<wvars, data, single, aggr, max_errors>>

\* plt.colorbar(qm, ticks=...) of plot_aggressors_vs_victims
AggregateColorbar ==
    /\ ticks.aggregate = <<>>
    /\ ticks' = [ticks EXCEPT !.aggregate = AggregateColorbarTicks(max_errors)]
    /\ UNCHANGED <<wvars, data, single, aggr, max_errors>>

TicksNext == SingleColorbar \/ AggregateColorbar

SpecTicks == TicksInit /\ [][TicksNext]_vars

\* ------------------------------------------------------------------- claims

\* the victim rows with bit flips among the entries a table holds under aggressor a
VictimsUnder(table, a) ==
    LET l == AggregateLists(table)
    IN {l.victims[e] : e \in {k \in 1..Len(l.victims) :
                                 l.aggressors[k] = a /\ l.bitflips[k] > 0}}

\* C1 (as claimed): in aggregate mode a further record of an attack set is
\* appended to the table and overwrites nothing: when a record brings a new
\* victim row under an aggressor, the victim rows already stored under that
\* aggressor stay stored, and their histogram cells (victim, aggressor) keep
\* the bit-flip counts their record gave them.
C1_AppendNotOverwrite ==
    [][(aggregate /\ pc = "in_set" /\ rec_no' = rec_no + 1) =>
        \A a \in HammerRows :
            (VictimsUnder(aggressors_vs_victims', a) \
                VictimsUnder(aggressors_vs_victims, a) # {}) =>
              \A v \in VictimsUnder(aggressors_vs_victims, a) :
                /\ v \in VictimsUnder(aggressors_vs_victims', a)
                /\ AggregateCell(AggregateLists(aggressors_vs_victims'), v, a) =
                      AggregateCell(AggregateLists(aggressors_vs_victims), v, a)]_vars

C4_UnrecognizedKindIsFatal ==
    "other" \in walked_kinds => pc = "raised"

\* C5 (as claimed): a run that printed the diagnostic of a disqualifying
\* record ends with a status other than 0.
C5_AbortStatusNonZero ==
    diag # "none" => exit_status # 0

\* C6 (as claimed): no renderer is ever called with nothing to plot.
C6_NoRenderOfNothing ==
    ~called_empty

\* the per-bit-flip records of an errors_in_rows, summed over the ragged
\* structure: all rows, all columns of a row, all flips of a column
FlipRecords(errors_in_rows) ==
    SumSeq([i \in 1..Len(errors_in_rows) |-> TotalFlips(errors_in_rows[i][2].col)])

\* C7: when the flattening loop of plot_single_attack has run, row_vals and
\* col_vals have the same length, and it is the number of per-bit-flip
\* records of the input over all its rows and columns.
C7_FlattenLength ==
    single # NotCalled =>
        /\ Len(single.row_vals) = Len(single.col_vals)
        /\ Len(single.row_vals) = FlipRecords(data)

\* C7 witness: a ragged input, two rows with three flips between them
C7_Witness ==
    /\ single # NotCalled
    /\ Len(data) = 2
    /\ Len(data[1][2].col) # Len(data[2][2].col)
    /\ Len(single.row_vals) = 3

\* C8: in a plot, row_labels lists the labels in the insertion order of
\* errors_in_rows, the flips of the row at position p (from 0) all have the
\* row value p, the Y tick p carries the label of that row, and the Y bins
\* put every flip in a bin and never the flips of two rows in the same bin.
C8_DenseRowIndex ==
    single # NotCalled =>
        /\ single.row_labels = [i \in 1..Len(data) |-> data[i][1]]
        /\ \A p \in 0..(Len(data) - 1) :
             Cardinality({e \in 1..Len(single.row_vals) : single.row_vals[e] = p}) =
                TotalFlips(data[p + 1][2].col)
        /\ single.status = "shown" =>
             /\ single.yticks = [i \in 1..Len(data) |-> <<i - 1, data[i][1]>>]
             /\ single.yedges2[1] = 2 * MinOf(single.row_vals) - 1
             /\ \A e \in 1..Len(single.row_vals) :
                  BinOf(single.yedges2, 2 * single.row_vals[e]) # 0
             /\ \A e1, e2 \in 1..Len(single.row_vals) :
                  BinOf(single.yedges2, 2 * single.row_vals[e1]) =
                     BinOf(single.yedges2, 2 * single.row_vals[e2])
                  => single.row_labels[single.row_vals[e1] + 1] =
                        single.row_labels[single.row_vals[e2] + 1]

\* C8 witness: a plot of two affected rows, the first logged being row 12
C8_Witness ==
    /\ single # NotCalled
    /\ single.status = "shown"
    /\ single.row_labels = <<Str(12), Str(3)>>
    /\ SeqRange(single.row_vals) = {0, 1}

\* C10 (as claimed): for every plot_columns >= 1, a call of plot_single_attack
\* on a record with flips gets a col_step >= 1 and column bin edges that end
\* at cols, and the histogram counts every flattened flip.
C10_ColumnBinsSpanAllColumns ==
    (single # NotCalled /\ Len(single.row_vals) > 0) =>
        /\ COLS \div plot_columns >= 1
        /\ single.status = "shown"
        /\ single.xedges[Len(single.xedges)] = COLS
        /\ HistTotal(single.h, single.xedges, single.yedges2) = Len(single.col_vals)

\* -------------------------------------------------------------------------
\* C9 (as claimed): a colorbar never has more than 21 ticks.
C9_AtMostTwentyOneTicks ==
    /\ Len(ticks.single) <= 21
    /\ Len(ticks.aggregate) <= 21

\* the ticks are 0, step, 2*step, ... up to the last multiple <= max_errors
TicksAreMultiples(t, step) ==
    /\ \A i \in 1..Len(t) : t[i] = (i - 1) * step
    /\ t[Len(t)] <= max_errors
    /\ max_errors < t[Len(t)] + step

\* C9 (amended): the ticks of either colorbar are the multiples of
\* step = max(1, floor(M / 20)) from 0 up to M, and they never number more
\* than 40 (39 gives 40 of them); no more than 21 only for M <= 20 and
\* from M = 400 on.
C9_AtMostFortyTicks ==
    /\ ticks.single # <<>> =>
         /\ TicksAreMultiples(ticks.single, Max2(1, max_errors \div 20))
         /\ Len(ticks.single) <= 40
         /\ (max_errors <= 20 \/ max_errors >= 400) => Len(ticks.single) <= 21
    /\ ticks.aggregate # <<>> =>
         /\ TicksAreMultiples(ticks.aggregate, Max2(1, max_errors \div 20))
         /\ Len(ticks.aggregate) <= 40
         /\ (max_errors <= 20 \/ max_errors >= 400) => Len(ticks.aggregate) <= 21

\* C9 witness: both colorbars drawn for a maximum of 39, with 40 ticks each
C9_Witness ==
    /\ max_errors = 39
    /\ Len(ticks.single) = 40
    /\ Len(ticks.aggregate) = 40

\* --------------------------------- plot_aggressors_vs_victims on one attack set
\* errors_in_rows as a log file may hold it: the "bitflips" field of a row is
\* whatever the file says, equal to the row's flip count (0 or 1 here) or not
LoggedErrors ==
    UNION {{[i \in 1..Len(rs) |->
                <<Str(rs[i]),
                  [row |-> rs[i], col |-> f[i].col, bitflips |-> f[i].bitflips]>>] :
             f \in [1..Len(rs) -> [col : ColMappings({0}, {<<0>>}),
                                   bitflips : {1, 2}]]} :
           rs \in DistinctSeqs(RowNumbers)}

\* the pair records of such a log
LoggedPairRecords ==
    [hammer_row_1 : HammerRows, hammer_row_2 : HammerRows,
     errors_in_rows : LoggedErrors]

\* aggregate mode, the outer loop has entered the first attack set
AggregateInit ==
    /\ aggregate = TRUE
    /\ plot_columns = MaxPlotColumns
    /\ colbits = MaxColBits
    /\ pc = "in_set"
    /\ set_no = 1
    /\ rec_no = 0
    /\ hammered_rows = Unbound
    /\ title = Unbound
    /\ aggressors_vs_victims = FreshTable
    /\ renders = 0
    /\ called_empty = FALSE
    /\ diag = "none"
    /\ error = "none"
    /\ exit_status = -1
    /\ walked_kinds = {}
    /\ Idle

WalkLoggedPair == \E r \in LoggedPairRecords : WalkRecord("pair", r)

\* lines 213-214, keeping what plot_aggressors_vs_victims computed
ShowAttackSet ==
    /\ AfterInnerLoop
    /\ aggr' = PlotAggressorsVsVictims(aggressors_vs_victims)
    /\ UNCHANGED <<data, single, max_errors, ticks>>

AggregateNext == WalkLoggedPair \/ ShowAttackSet

SpecAggregate == AggregateInit /\ [][AggregateNext]_vars

\* the entries of the table in the order the loops of lines 75-87 meet them:
\* <<i, j>> is the j-th victim entry under the i-th aggressor
TableEntries(table) ==
    {p \in (1..Len(table)) \X (1..Cardinality(RowNumbers)) :
        p[2] <= Len(table[p[1]][2])}

\* the place of entry <<i, j>> in the output sequences
PlaceOf(table, p) ==
    SumSeq([k \in 1..(p[1] - 1) |-> Len(table[k][2])]) + p[2]

\* C11 (as claimed): the bitflips weight emitted for a table entry is the
\* sum of the lengths of the per-column flip lists of that victim row.
C11_WeightIsCountedFlips ==
    aggr # NotCalled =>
        \A p \in TableEntries(aggressors_vs_victims) :
            aggr.lists.bitflips[PlaceOf(aggressors_vs_victims, p)] =
                TotalFlips(aggressors_vs_victims[p[1]][2][p[2]][2].col)

\* C11 (amended): aggressors, victims and bitflips have the same length, one
\* place per entry of the table; at the place of an entry stand the key it
\* is stored under, the "row" field and the "bitflips" field of the logged
\* row record, whatever the flip lists of that row hold.
C11_WeightIsLoggedField ==
    aggr # NotCalled =>
        /\ Len(aggr.lists.aggressors) = Cardinality(TableEntries(aggressors_vs_victims))
        /\ Len(aggr.lists.victims) = Len(aggr.lists.aggressors)
        /\ Len(aggr.lists.bitflips) = Len(aggr.lists.aggressors)
        /\ \A p \in TableEntries(aggressors_vs_victims) :
             LET e == PlaceOf(aggressors_vs_victims, p)
                 v == aggressors_vs_victims[p[1]][2][p[2]]
             IN /\ aggr.lists.aggressors[e] = aggressors_vs_victims[p[1]][1]
                /\ aggr.lists.victims[e] = v[2].row
                /\ aggr.lists.bitflips[e] = v[2].bitflips

\* C11 witness: a render of two aggressors and three entries, one of them
\* logged with two bit flips over a single flip record
C11_Witness ==
    /\ aggr # NotCalled
    /\ aggr.status = "shown"
    /\ Len(aggressors_vs_victims) = 2
    /\ Len(aggr.lists.bitflips) = 3
    /\ \E p \in TableEntries(aggressors_vs_victims) :
         LET v == aggressors_vs_victims[p[1]][2][p[2]]
         IN v[2].bitflips = 2 /\ TotalFlips(v[2].col) = 1

====
